---- MODULE Spec2Model ----
(***************************************************************************)
(* A model of dlgo/goboard.py: Move, GoString, Board and GameState.        *)
(*                                                                         *)
(* Python values are modelled as records.  None is modelled by one fixed   *)
(* record per type (NoPoint, NoString, NoMove) that no constructor of the  *)
(* program can produce.  A call that can raise returns a record with an    *)
(* err field ("none" when it returns normally, otherwise the name of the   *)
(* exception).  Iteration over a frozenset has no order the program        *)
(* fixes, so a loop over one yields the set of outcomes of every order.    *)
(***************************************************************************)
EXTENDS Integers, Sequences, FiniteSets

VARIABLES
    board,   \* a Board object driven directly through place_stone
    calls,   \* number of place_stone calls made on board that got past its
             \* assertions (SpecBoard), of merged_with calls made (SpecMerge)
    heap,    \* the Board objects referenced by GameState objects
    nodes,   \* the GameState objects, in creation order; the last is the tip
    objs,    \* the Move objects that exist (SpecMove); the two GoString
             \* operands of merged_with and its result (SpecMerge)
    raised   \* the exception the last place_stone, merged_with or Move(...)
             \* call raised, or "none"

vars == <<board, calls, heap, nodes, objs, raised>>

(***************************************************************************)
(* Bounds.                                                                 *)
(***************************************************************************)
NumRows == 2        \* board_size of new_game in Spec, of Board() in SpecBoard
NumCols == 2
MaxMoves == 3       \* GameState objects made by apply_move in Spec
WideRows == 3       \* board_size of new_game in SpecWide
WideCols == 3
WideMoves == 4      \* GameState objects made by apply_move in SpecWide
MaxCalls == 5       \* place_stone calls in SpecBoard
MaxObjs == 2        \* Move objects in SpecMove
MergePoints == 3    \* points the operands of merged_with are drawn from in SpecMerge

(***************************************************************************)
(* gotypes: Player and Point (collaborators of goboard.py).                *)
(***************************************************************************)
Player == {"black", "white"}

other(player) == IF player = "black" THEN "white" ELSE "black"

Point(r, c) == [row |-> r, col |-> c]

NoPoint == [row |-> -1, col |-> -1]

neighbors(point) ==
    << Point(point.row - 1, point.col), Point(point.row + 1, point.col),
       Point(point.row, point.col - 1), Point(point.row, point.col + 1) >>

(***************************************************************************)
(* zobrist: a wide integer is modelled by the set of its one-bits, so that *)
(* ^ is the symmetric difference.  Every (point, player) code is a         *)
(* distinct single bit, named by the pair itself.                          *)
(***************************************************************************)
EMPTY_BOARD == {}

HASH_CODE(point, player) == {<<point, player>>}

Xor(a, b) == (a \ b) \cup (b \ a)

(***************************************************************************)
(* class Move                                                              *)
(***************************************************************************)
NoMove == [point |-> NoPoint, is_play |-> FALSE, is_pass |-> FALSE, is_resign |-> FALSE]

BoolXor(a, b) == a # b

\* The assertion of Move.__init__ (line 14): ^ of three booleans.
MoveAssert(point, is_pass, is_resign) ==
    BoolXor(BoolXor(point # NoPoint, is_pass), is_resign)

Move_init(point, is_pass, is_resign) ==
    IF ~MoveAssert(point, is_pass, is_resign)
    THEN [err |-> "AssertionError", value |-> NoMove]
    ELSE [err |-> "none",
          value |-> [point |-> point, is_play |-> point # NoPoint,
                     is_pass |-> is_pass, is_resign |-> is_resign]]

play(point) == Move_init(point, FALSE, FALSE).value

pass_turn == Move_init(NoPoint, TRUE, FALSE).value

resign == Move_init(NoPoint, FALSE, TRUE).value

(***************************************************************************)
(* class GoString                                                          *)
(***************************************************************************)
GoString(color, stones, liberties) ==
    [color |-> color, stones |-> stones, liberties |-> liberties]

NoString == [color |-> "None", stones |-> {}, liberties |-> {}]

without_liberty(self, point) ==
    GoString(self.color, self.stones, self.liberties \ {point})

\* Line 50 reads self.liberities, an attribute no GoString has.
with_liberty(self, point) ==
    [err |-> "AttributeError", value |-> NoString]

merged_with_asserts(self, go_string) == go_string.color = self.color

\* merged_with with line 57 subtracting self.stones, not combined_stones.
merged_with_own_stones(self, go_string) ==
    LET combined_stones == self.stones \cup go_string.stones
    IN  GoString(self.color, combined_stones,
                 (self.liberties \cup go_string.liberties) \ self.stones)

merged_with(self, go_string) ==
    LET combined_stones == self.stones \cup go_string.stones
    IN  GoString(self.color, combined_stones,
                 (self.liberties \cup go_string.liberties) \ combined_stones)

\* Outcome [err, value] of self.merged_with(go_string).
merged_with_call(self, go_string) ==
    IF ~merged_with_asserts(self, go_string)
    THEN [err |-> "AssertionError", value |-> NoString]
    ELSE [err |-> "none", value |-> merged_with(self, go_string)]

num_liberties(self) == Cardinality(self.liberties)

(***************************************************************************)
(* class Board                                                             *)
(***************************************************************************)
Points(num_rows, num_cols) ==
    {Point(r, c) : r \in 1..num_rows, c \in 1..num_cols}

Board(num_rows, num_cols) ==
    [num_rows |-> num_rows, num_cols |-> num_cols,
     _grid |-> [p \in Points(num_rows, num_cols) |-> NoString],
     _hash |-> EMPTY_BOARD]

is_on_grid(self, point) ==
    /\ 1 <= point.row /\ point.row <= self.num_rows
    /\ 1 <= point.col /\ point.col <= self.num_cols

\* self._grid.get(point)
GridGet(self, point) ==
    IF is_on_grid(self, point) THEN self._grid[point] ELSE NoString

get(self, point) ==
    LET string == GridGet(self, point)
    IN  IF string = NoString THEN "None" ELSE string.color

get_go_string(self, point) == GridGet(self, point)

zobrist_hash(self) == self._hash

_replace_string(self, new_string) ==
    [self EXCEPT !._grid = [p \in DOMAIN self._grid |->
                              IF p \in new_string.stones THEN new_string
                              ELSE self._grid[p]]]

Ok(b) == [err |-> "none", board |-> b]

Raise(e, b) == [err |-> e, board |-> b]

\* The inner loop of _remove_string (lines 147-152) for one point, from the
\* i-th neighbour on.
RECURSIVE RemoveNeighbors(_, _, _, _)
RemoveNeighbors(self, string, point, i) ==
    IF i > Len(neighbors(point)) THEN Ok(self)
    ELSE LET neighbor_string == GridGet(self, neighbors(point)[i])
         IN  IF neighbor_string = NoString \/ neighbor_string = string
             THEN RemoveNeighbors(self, string, point, i + 1)
             ELSE LET r == with_liberty(neighbor_string, point)
                  IN  IF r.err # "none" THEN Raise(r.err, self)
                      ELSE RemoveNeighbors(_replace_string(self, r.value),
                                           string, point, i + 1)

\* Lines 153-155: the point is emptied and its code is taken out of the hash.
RemovePoint(self, string, point) ==
    [self EXCEPT !._grid[point] = NoString,
                 !._hash = Xor(self._hash, HASH_CODE(point, string.color))]

\* The outer loop of _remove_string over the points still to visit; one
\* outcome for every order in which string.stones can be iterated.
RECURSIVE RemoveLoop(_, _, _)
RemoveLoop(self, string, todo) ==
    IF todo = {} THEN {Ok(self)}
    ELSE UNION { LET r == RemoveNeighbors(self, string, point, 1)
                 IN  IF r.err # "none" THEN {r}
                     ELSE RemoveLoop(RemovePoint(r.board, string, point),
                                     string, todo \ {point})
                 : point \in todo }

_remove_string(self, string) == RemoveLoop(self, string, string.stones)

\* The neighbour strings that satisfy want, in neighbour order, each once
\* (lines 86-97; "not in" compares by __eq__).
RECURSIVE Adjacent(_, _, _, _, _)
Adjacent(self, point, want, i, acc) ==
    IF i > Len(neighbors(point)) THEN acc
    ELSE LET neighbor == neighbors(point)[i]
             neighbor_string == GridGet(self, neighbor)
             fresh == /\ is_on_grid(self, neighbor)
                      /\ neighbor_string # NoString
                      /\ (neighbor_string.color = want)
                      /\ \A j \in 1..Len(acc) : acc[j] # neighbor_string
         IN  Adjacent(self, point, want, i + 1,
                      IF fresh THEN Append(acc, neighbor_string) ELSE acc)

\* The loop of lines 102-103 with line 103 merging into the one-stone
\* string each time: only the last string of the list is merged.
MergeAll_keeps_last(new_string, adjacent_same_color, i) ==
    IF i > Len(adjacent_same_color) THEN new_string
    ELSE merged_with(new_string, adjacent_same_color[Len(adjacent_same_color)])

\* Lines 102-103: the fold of merged_with over adjacent_same_color.
RECURSIVE MergeAll(_, _, _)
MergeAll(new_string, adjacent_same_color, i) ==
    IF i > Len(adjacent_same_color) THEN new_string
    ELSE MergeAll(merged_with(new_string, adjacent_same_color[i]),
                  adjacent_same_color, i + 1)

\* ReduceOpposite with lines 112-115 always taking the _replace_string
\* branch: a string left without liberties stays on the board.
RECURSIVE ReduceOpposite_never_removes(_, _, _, _)
ReduceOpposite_never_removes(self, point, adjacent_opposite_color, i) ==
    IF i > Len(adjacent_opposite_color) THEN {Ok(self)}
    ELSE LET other_color_string == adjacent_opposite_color[i]
             replacement == without_liberty(other_color_string, point)
         IN  ReduceOpposite_never_removes(_replace_string(self, replacement), point,
                                          adjacent_opposite_color, i + 1)

\* Lines 110-115: the loop over adjacent_opposite_color from the i-th on.
RECURSIVE ReduceOpposite(_, _, _, _)
ReduceOpposite(self, point, adjacent_opposite_color, i) ==
    IF i > Len(adjacent_opposite_color) THEN {Ok(self)}
    ELSE LET other_color_string == adjacent_opposite_color[i]
             replacement == without_liberty(other_color_string, point)
         IN  IF num_liberties(replacement) # 0
             THEN ReduceOpposite(_replace_string(self, replacement), point,
                                 adjacent_opposite_color, i + 1)
             ELSE UNION { IF r.err # "none" THEN {r}
                          ELSE ReduceOpposite(r.board, point,
                                              adjacent_opposite_color, i + 1)
                          : r \in _remove_string(self, other_color_string) }

\* PlaceNewString with line 90 dropped: every neighbour on the grid, empty
\* or not, is taken as a liberty of the new stone.
PlaceNewString_any_neighbor(self, player, point) ==
    LET liberties == {n \in Points(self.num_rows, self.num_cols) :
                        \E i \in 1..4 : neighbors(point)[i] = n}
        adjacent_same_color == Adjacent(self, point, player, 1, <<>>)
        new_string == MergeAll(GoString(player, {point}, liberties),
                               adjacent_same_color, 1)
        written == _replace_string(self, new_string)
    IN  [written EXCEPT !._hash = Xor(self._hash, HASH_CODE(point, player))]

\* Lines 83-107: the scan for liberties and friendly strings; the new string
\* is built, merged, written and hashed.
PlaceNewString(self, player, point) ==
    LET liberties == {n \in Points(self.num_rows, self.num_cols) :
                        /\ \E i \in 1..4 : neighbors(point)[i] = n
                        /\ GridGet(self, n) = NoString}
        adjacent_same_color == Adjacent(self, point, player, 1, <<>>)
        new_string == MergeAll(GoString(player, {point}, liberties),
                               adjacent_same_color, 1)
        written == _replace_string(self, new_string)
    IN  [written EXCEPT !._hash = Xor(self._hash, HASH_CODE(point, player))]

\* place_stone with the assert of line 82 dropped.
place_stone_on_any_grid_point(self, player, point) ==
    IF ~is_on_grid(self, point)
    THEN {Raise("AssertionError", self)}
    ELSE ReduceOpposite(PlaceNewString(self, player, point), point,
                        Adjacent(self, point, other(player), 1, <<>>), 1)

\* Board.place_stone: the set of outcomes [err, board]; board is the object
\* as the call leaves it, also when it raises.
place_stone(self, player, point) ==
    IF ~is_on_grid(self, point) \/ GridGet(self, point) # NoString
    THEN {Raise("AssertionError", self)}
    ELSE ReduceOpposite(PlaceNewString(self, player, point), point,
                        Adjacent(self, point, other(player), 1, <<>>), 1)

(***************************************************************************)
(* class GameState.  A GameState refers to its Board by the Board's index  *)
(* in the heap h and to its previous GameState by that one's index in ns   *)
(* (0 for None).  Calls that copy the board return the heap they leave.    *)
(***************************************************************************)
NoState ==
    [board |-> 0, next_player |-> "None", previous_state |-> 0,
     previous_states |-> {}, last_move |-> NoMove]

\* deepcopy replaced by the object itself (next_board = self.board).
deepcopy_alias(h, ref) == [heap |-> h, ref |-> ref]

\* copy.deepcopy(self.board): a new object, equal to the one at ref.
deepcopy(h, ref) == [heap |-> Append(h, h[ref]), ref |-> Len(h) + 1]

\* The objects of h2 that outlive a call entered with n objects.
Collect(h2, n) == SubSeq(h2, 1, n)

\* GameState.__init__ with line 169 keeping only the pair of previous.
GameState_init_last_only(h, ns, board_ref, next_player, previous, move) ==
    [board |-> board_ref,
     next_player |-> next_player,
     previous_state |-> previous,
     previous_states |->
        IF previous = 0 THEN {}
        ELSE {<<ns[previous].next_player, zobrist_hash(h[ns[previous].board])>>},
     last_move |-> move]

GameState_init(h, ns, board_ref, next_player, previous, move) ==
    [board |-> board_ref,
     next_player |-> next_player,
     previous_state |-> previous,
     previous_states |->
        IF previous = 0 THEN {}
        ELSE ns[previous].previous_states \cup
             {<<ns[previous].next_player, zobrist_hash(h[ns[previous].board])>>},
     last_move |-> move]

\* apply_move with line 182 passing self.board instead of next_board.
apply_move_old_board(h, ns, self, move) ==
    IF move.is_play
    THEN LET d == deepcopy(h, ns[self].board)
         IN  { LET h2 == [d.heap EXCEPT ![d.ref] = r.board]
               IN  IF r.err # "none"
                   THEN [err |-> r.err, heap |-> Collect(h2, Len(h)), state |-> NoState]
                   ELSE [err |-> "none", heap |-> Collect(h2, Len(h)),
                         state |-> GameState_init(h2, ns, ns[self].board,
                                       other(ns[self].next_player), self, move)]
               : r \in place_stone(d.heap[d.ref], ns[self].next_player, move.point) }
    ELSE { [err |-> "none", heap |-> h,
            state |-> GameState_init(h, ns, ns[self].board,
                          other(ns[self].next_player), self, move)] }

\* Outcomes [err, heap, state] of ns[self].apply_move(move).
apply_move(h, ns, self, move) ==
    IF move.is_play
    THEN LET d == deepcopy(h, ns[self].board)
         IN  { LET h2 == [d.heap EXCEPT ![d.ref] = r.board]
               IN  IF r.err # "none"
                   THEN [err |-> r.err, heap |-> Collect(h2, Len(h)), state |-> NoState]
                   ELSE [err |-> "none", heap |-> h2,
                         state |-> GameState_init(h2, ns, d.ref,
                                       other(ns[self].next_player), self, move)]
               : r \in place_stone(d.heap[d.ref], ns[self].next_player, move.point) }
    ELSE { [err |-> "none", heap |-> h,
            state |-> GameState_init(h, ns, ns[self].board,
                          other(ns[self].next_player), self, move)] }

new_game(board_size) ==
    LET h == << Board(board_size[1], board_size[2]) >>
    IN  [heap |-> h, state |-> GameState_init(h, <<>>, 1, "black", 0, NoMove)]

\* is_over with line 199 reading "return self.last_move.is_pass".
is_over_one_pass(ns, self) ==
    IF ns[self].last_move = NoMove THEN FALSE
    ELSE IF ns[self].last_move.is_resign THEN TRUE
    ELSE LET second_last_move == ns[ns[self].previous_state].last_move
         IN  IF second_last_move = NoMove THEN FALSE
             ELSE ns[self].last_move.is_pass

is_over(ns, self) ==
    IF ns[self].last_move = NoMove THEN FALSE
    ELSE IF ns[self].last_move.is_resign THEN TRUE
    ELSE LET second_last_move == ns[ns[self].previous_state].last_move
         IN  IF second_last_move = NoMove THEN FALSE
             ELSE ns[self].last_move.is_pass /\ second_last_move.is_pass

Returns(v, h) == [err |-> "none", value |-> v, heap |-> h]

Raises(e, h) == [err |-> e, value |-> FALSE, heap |-> h]

\* Outcomes [err, value, heap] of ns[self].is_move_self_capture(player, move).
is_move_self_capture(h, ns, self, player, move) ==
    IF ~move.is_play THEN {Returns(FALSE, h)}
    ELSE LET d == deepcopy(h, ns[self].board)
         IN  { LET h2 == Collect([d.heap EXCEPT ![d.ref] = r.board], Len(h))
               IN  IF r.err # "none" THEN Raises(r.err, h2)
                   ELSE Returns(num_liberties(get_go_string(r.board, move.point)) = 0, h2)
               : r \in place_stone(d.heap[d.ref], player, move.point) }

\* Outcomes [err, value, heap] of ns[self].does_move_violate_ko(player, move).
does_move_violate_ko(h, ns, self, player, move) ==
    IF ~move.is_play THEN {Returns(FALSE, h)}
    ELSE LET d == deepcopy(h, ns[self].board)
         IN  { LET h2 == Collect([d.heap EXCEPT ![d.ref] = r.board], Len(h))
               IN  IF r.err # "none" THEN Raises(r.err, h2)
                   ELSE Returns(<<other(player), zobrist_hash(r.board)>>
                                    \in ns[self].previous_states, h2)
               : r \in place_stone(d.heap[d.ref], player, move.point) }

\* is_valid_move without lines 227-228, the is_over() test.
is_valid_move_unless_over(h, ns, self, move) ==
    IF move.is_pass \/ move.is_resign THEN {Returns(TRUE, h)}
    ELSE IF get(h[ns[self].board], move.point) # "None" THEN {Returns(FALSE, h)}
    ELSE UNION {
        IF a.err # "none" THEN {a}
        ELSE IF a.value THEN {Returns(FALSE, a.heap)}
        ELSE { IF k.err # "none" THEN k ELSE Returns(~k.value, k.heap)
               : k \in does_move_violate_ko(a.heap, ns, self, ns[self].next_player, move) }
        : a \in is_move_self_capture(h, ns, self, ns[self].next_player, move) }

\* Outcomes [err, value, heap] of ns[self].is_valid_move(move).
is_valid_move(h, ns, self, move) ==
    IF is_over(ns, self) THEN {Returns(FALSE, h)}
    ELSE IF move.is_pass \/ move.is_resign THEN {Returns(TRUE, h)}
    ELSE IF get(h[ns[self].board], move.point) # "None" THEN {Returns(FALSE, h)}
    ELSE UNION {
        IF a.err # "none" THEN {a}
        ELSE IF a.value THEN {Returns(FALSE, a.heap)}
        ELSE { IF k.err # "none" THEN k ELSE Returns(~k.value, k.heap)
               : k \in does_move_violate_ko(a.heap, ns, self, ns[self].next_player, move) }
        : a \in is_move_self_capture(h, ns, self, ns[self].next_player, move) }

(***************************************************************************)
(* Spec and SpecWide: a game driven through the GameState interface.       *)
(***************************************************************************)
Tip == Len(nodes)

TipBoard == heap[nodes[Tip].board]

FactoryMoves(b) ==
    {play(p) : p \in Points(b.num_rows, b.num_cols)} \cup {pass_turn, resign}

InitGame(board_size) ==
    /\ heap = new_game(board_size).heap
    /\ nodes = << new_game(board_size).state >>
    /\ board = Board(0, 0)
    /\ calls = 0
    /\ objs = {}
    /\ raised = "none"

Init == InitGame(<<NumRows, NumCols>>)

InitWide == InitGame(<<WideRows, WideCols>>)

\* The apply_move calls a run may still make.
MoreMoves ==
    Len(nodes) <= (IF TipBoard.num_rows = WideRows THEN WideMoves ELSE MaxMoves)

\* tip.apply_move(move); a call that raises creates no GameState.
ApplyMove ==
    /\ MoreMoves
    /\ \E move \in FactoryMoves(TipBoard) :
       \E o \in apply_move(heap, nodes, Tip, move) :
          /\ heap' = o.heap
          /\ nodes' = IF o.err = "none" THEN Append(nodes, o.state) ELSE nodes
    /\ UNCHANGED <<board, calls, objs, raised>>

IsValidMove ==
    /\ \E move \in FactoryMoves(TipBoard) :
       \E o \in is_valid_move(heap, nodes, Tip, move) : heap' = o.heap
    /\ UNCHANGED <<board, calls, nodes, objs, raised>>

IsMoveSelfCapture ==
    /\ \E player \in Player : \E move \in FactoryMoves(TipBoard) :
       \E o \in is_move_self_capture(heap, nodes, Tip, player, move) : heap' = o.heap
    /\ UNCHANGED <<board, calls, nodes, objs, raised>>

DoesMoveViolateKo ==
    /\ \E player \in Player : \E move \in FactoryMoves(TipBoard) :
       \E o \in does_move_violate_ko(heap, nodes, Tip, player, move) : heap' = o.heap
    /\ UNCHANGED <<board, calls, nodes, objs, raised>>

Next == ApplyMove \/ IsValidMove \/ IsMoveSelfCapture \/ DoesMoveViolateKo

Spec == Init /\ [][Next]_vars

SpecWide == InitWide /\ [][Next]_vars

(***************************************************************************)
(* SpecBoard: one Board driven directly through place_stone.               *)
(***************************************************************************)
InitBoard ==
    /\ board = Board(NumRows, NumCols)
    /\ calls = 0
    /\ heap = <<>>
    /\ nodes = <<>>
    /\ objs = {}
    /\ raised = "none"

\* board.place_stone(player, point) on an empty point of the grid.
PlaceStone ==
    /\ calls < MaxCalls
    /\ \E player \in Player : \E point \in Points(board.num_rows, board.num_cols) :
          /\ GridGet(board, point) = NoString
          /\ \E r \in place_stone(board, player, point) :
                /\ board' = r.board
                /\ raised' = r.err
    /\ calls' = calls + 1
    /\ UNCHANGED <<heap, nodes, objs>>

\* One point beyond each edge of the grid of b.
BeyondEdges(b) ==
    {Point(0, 1), Point(1, 0), Point(b.num_rows + 1, 1), Point(1, b.num_cols + 1)}

\* board.place_stone(player, point) on a point off the grid or holding a stone.
PlaceStoneRejected ==
    /\ calls < MaxCalls
    /\ \E player \in Player :
       \E point \in Points(board.num_rows, board.num_cols) \cup BeyondEdges(board) :
          /\ ~is_on_grid(board, point) \/ GridGet(board, point) # NoString
          /\ \E r \in place_stone(board, player, point) :
                /\ board' = r.board
                /\ raised' = r.err
    /\ UNCHANGED <<calls, heap, nodes, objs>>

NextBoard == PlaceStone \/ PlaceStoneRejected

SpecBoard == InitBoard /\ [][NextBoard]_vars

(***************************************************************************)
(* SpecMove: Move objects built by calling the constructor directly.       *)
(***************************************************************************)
InitMove ==
    /\ objs = {}
    /\ raised = "none"
    /\ board = Board(0, 0)
    /\ calls = 0
    /\ heap = <<>>
    /\ nodes = <<>>

\* Move(point, is_pass, is_resign)
Construct ==
    /\ \E point \in Points(WideRows, WideCols) \cup {NoPoint} :
       \E is_pass \in BOOLEAN : \E is_resign \in BOOLEAN :
          LET r == Move_init(point, is_pass, is_resign)
          IN  /\ raised' = r.err
              /\ objs' = IF r.err = "none" THEN objs \cup {r.value} ELSE objs
              /\ Cardinality(objs') <= MaxObjs
    /\ UNCHANGED <<board, calls, heap, nodes>>

NextMove == Construct

SpecMove == InitMove /\ [][NextMove]_vars

(***************************************************************************)
(* SpecMerge: merged_with called on two GoString objects.                  *)
(***************************************************************************)
MergeDomain == Points(1, MergePoints)

\* The strings on MergeDomain whose liberties are none of their stones.
MergeOperands ==
    {g \in [color : Player, stones : (SUBSET MergeDomain) \ {{}},
            liberties : SUBSET MergeDomain] : g.stones \cap g.liberties = {}}

InitMerge ==
    /\ \E self \in MergeOperands : \E go_string \in MergeOperands :
          objs = [self |-> self, go_string |-> go_string, result |-> NoString]
    /\ raised = "none"
    /\ calls = 0
    /\ board = Board(0, 0)
    /\ heap = <<>>
    /\ nodes = <<>>

\* objs.self.merged_with(objs.go_string)
MergedWith ==
    /\ calls = 0
    /\ LET r == merged_with_call(objs.self, objs.go_string)
       IN  /\ raised' = r.err
           /\ objs' = [objs EXCEPT !.result = r.value]
    /\ calls' = 1
    /\ UNCHANGED <<board, heap, nodes>>

NextMerge == MergedWith

SpecMerge == InitMerge /\ [][NextMerge]_vars

(***************************************************************************)
(* Properties of Board.place_stone, checked under SpecBoard.               *)
(***************************************************************************)
OnBoard == Points(board.num_rows, board.num_cols)

\* The strings of colour color on the neighbours of point.
AdjacentStrings(b, point, color) ==
    {GridGet(b, neighbors(point)[i]) : i \in 1..4} \cap
    {g \in {b._grid[q] : q \in DOMAIN b._grid} : g.color = color}

RECURSIVE XorAll(_)
XorAll(codes) ==
    IF codes = {} THEN EMPTY_BOARD
    ELSE LET c == CHOOSE x \in codes : TRUE
         IN  Xor(c, XorAll(codes \ {c}))

\* EMPTY_BOARD ^ the code of every (point, colour) that get() reports.
OccupiedHash(b) ==
    XorAll({HASH_CODE(q, get(b, q)) : q \in {x \in DOMAIN b._grid : get(b, x) # "None"}})

\* C1: a place_stone call on an empty point of the grid that takes the last
\* liberty of an adjacent opposing string G returns normally, and afterwards
\* get(c) and get_go_string(c) are None for every point c of G.
C1_CaptureCompletes ==
    \A player \in Player : \A point \in OnBoard :
        GridGet(board, point) = NoString =>
            \A G \in AdjacentStrings(board, point, other(player)) :
                G.liberties = {point} =>
                    \A r \in place_stone(board, player, point) :
                        /\ r.err = "none"
                        /\ \A c \in G.stones :
                              /\ get(r.board, c) = "None"
                              /\ get_go_string(r.board, c) = NoString

\* C5: after any sequence of place_stone calls on empty points of the grid,
\* zobrist_hash() is EMPTY_BOARD xor-ed with the code of exactly every
\* (point, colour) pair that is occupied.
C5_HashIsXorOfOccupied == zobrist_hash(board) = OccupiedHash(board)

(***************************************************************************)
(* Properties of Move, checked under SpecMove.                             *)
(***************************************************************************)
Selected(m) == Cardinality({i \in 1..3 : <<m.is_play, m.is_pass, m.is_resign>>[i]})

\* C9: every Move that exists satisfies exactly one of is_play, is_pass and
\* is_resign, a construction with none or several selected having failed.
C9_ExactlyOneVariant == \A m \in objs : Selected(m) = 1

(***************************************************************************)
(* Properties of GameState, checked under Spec (and C3 under SpecWide).    *)
(* Every GameState is the tip when it is made, so a statement about the    *)
(* tip of every reachable state is a statement about every GameState.      *)
(***************************************************************************)
TipPoints == Points(TipBoard.num_rows, TipBoard.num_cols)

TipPlayer == nodes[Tip].next_player

Touching(a, b) ==
    \/ a.row = b.row /\ (a.col = b.col + 1 \/ b.col = a.col + 1)
    \/ a.col = b.col /\ (a.row = b.row + 1 \/ b.row = a.row + 1)

\* The colours on the points of b once player has a stone on point.
ColoursWith(b, player, point) ==
    [q \in DOMAIN b._grid |-> IF q = point THEN player ELSE get(b, q)]

\* The connected same-colour set of stones that holds the stones of S.
RECURSIVE Chain(_, _)
Chain(col, S) ==
    LET T == S \cup {q \in DOMAIN col :
                       \E x \in S : Touching(x, q) /\ col[q] = col[x]}
    IN  IF T = S THEN S ELSE Chain(col, T)

FreeAround(col, S) ==
    {q \in DOMAIN col : col[q] = "None" /\ \E x \in S : Touching(x, q)}

\* A stone of player on point would join a chain with no empty neighbour,
\* and every opposing chain next to point would keep an empty neighbour.
SuicideAt(b, player, point) ==
    LET col == ColoursWith(b, player, point)
    IN  /\ FreeAround(col, Chain(col, {point})) = {}
        /\ \A q \in DOMAIN col :
              Touching(point, q) /\ col[q] = other(player)
                  => FreeAround(col, Chain(col, {q})) # {}

\* Every move of the history was accepted by is_valid_move when applied.
LegalHistory ==
    \A n \in 2..Len(nodes) :
        \A o \in is_valid_move(heap, nodes, nodes[n].previous_state, nodes[n].last_move) :
            o.err = "none" /\ o.value

\* C2: in a game state that is not over, a play by the player to move on an
\* empty point that would leave its chain without liberties and capture
\* nothing is a self-capture, and is_valid_move rejects it.
C2_SuicideRejected ==
    \A point \in TipPoints :
        ( /\ ~is_over(nodes, Tip)
          /\ get(TipBoard, point) = "None"
          /\ SuicideAt(TipBoard, TipPlayer, point) )
        => /\ \A o \in is_move_self_capture(heap, nodes, Tip, TipPlayer, play(point)) :
                 o.err = "none" /\ o.value
           /\ \A o \in is_valid_move(heap, nodes, Tip, play(point)) :
                 o.err = "none" /\ ~o.value

C2_Witness ==
    /\ ~is_over(nodes, Tip)
    /\ \E point \in TipPoints :
          /\ get(TipBoard, point) = "None"
          /\ SuicideAt(TipBoard, TipPlayer, point)
          /\ \E q \in TipPoints : Touching(point, q) /\ get(TipBoard, q) = other(TipPlayer)
          /\ \A o \in is_valid_move(heap, nodes, Tip, play(point)) : ~o.value

\* C4: for every GameState made from new_game by apply_move calls, is_over()
\* is true exactly when its last move is a resignation, or its last move and
\* the move before it are both passes.
C4_OverExactly ==
    \A n \in 1..Len(nodes) :
        is_over(nodes, n) <=>
            /\ n >= 2
            /\ \/ nodes[n].last_move = resign
               \/ /\ n >= 3
                  /\ nodes[n].last_move = pass_turn
                  /\ nodes[n - 1].last_move = pass_turn

C4_Witness ==
    /\ Len(nodes) = 4
    /\ nodes[2].last_move.is_play
    /\ nodes[3].last_move = pass_turn /\ ~is_over(nodes, 3)
    /\ nodes[4].last_move = pass_turn /\ is_over(nodes, 4)

\* C6: the board of every GameState that exists (the string at every point,
\* and the hash) is the same after any apply_move, is_valid_move,
\* is_move_self_capture or does_move_violate_ko call as before it.
C6_BoardsNeverChange ==
    [][ \A n \in 1..Len(nodes) :
            /\ Len(nodes') >= n /\ nodes'[n].board = nodes[n].board
            /\ Len(heap') >= nodes[n].board
            /\ heap'[nodes[n].board] = heap[nodes[n].board] ]_vars

\* A pass shares the board of its parent, and a play follows the pass.
C6_Witness ==
    \E n \in 2..(Len(nodes) - 1) :
        /\ nodes[n].last_move = pass_turn
        /\ nodes[n].board = nodes[n - 1].board
        /\ nodes[n + 1].last_move.is_play
        /\ nodes[n + 1].board # nodes[n].board
        /\ heap[nodes[n + 1].board] # heap[nodes[n].board]

\* C7: in a game state reached by moves that is_valid_move accepted,
\* is_valid_move returns a boolean, raising nothing, for a pass, a
\* resignation and a play on any point of the grid.
C7_NoFaults ==
    LegalHistory =>
        \A move \in FactoryMoves(TipBoard) :
            \A o \in is_valid_move(heap, nodes, Tip, move) : o.err = "none"

\* C8: a play on an empty point with no empty neighbour and no friendly
\* neighbouring string with a spare liberty, that takes the last liberty of
\* an adjacent opposing string, is not a self-capture.
C8_CaptureIsNotSuicide ==
    \A player \in Player : \A point \in TipPoints :
        ( /\ get(TipBoard, point) = "None"
          /\ \A q \in TipPoints : Touching(point, q) => get(TipBoard, q) # "None"
          /\ \A F \in AdjacentStrings(TipBoard, point, player) : F.liberties \subseteq {point}
          /\ \E G \in AdjacentStrings(TipBoard, point, other(player)) : G.liberties = {point} )
        => \A o \in is_move_self_capture(heap, nodes, Tip, player, play(point)) :
              o.err = "none" /\ ~o.value

\* C10: once is_over() is true is_valid_move is false for every move; while
\* it is false a pass and a resignation are valid; so in a history of
\* accepted moves no GameState follows one whose is_over() is true.
C10_OverIsAbsorbing ==
    /\ is_over(nodes, Tip) =>
          \A move \in FactoryMoves(TipBoard) :
              \A o \in is_valid_move(heap, nodes, Tip, move) : o.err = "none" /\ ~o.value
    /\ ~is_over(nodes, Tip) =>
          \A move \in {pass_turn, resign} :
              \A o \in is_valid_move(heap, nodes, Tip, move) : o.err = "none" /\ o.value
    /\ LegalHistory => \A n \in 1..(Len(nodes) - 1) : ~is_over(nodes, n)

C10_Witness ==
    /\ LegalHistory
    /\ Len(nodes) = 4
    /\ nodes[2].last_move.is_play
    /\ is_over(nodes, Tip)
    /\ \A move \in FactoryMoves(TipBoard) :
          \A o \in is_valid_move(heap, nodes, Tip, move) : ~o.value

\* The single-stone ko shape for player about to play q: the opposing stone
\* on p is alone with q its only liberty, every neighbour of q holds an
\* opposing stone, and no other string next to q has q as its last liberty.
KoShape(b, player, q, p) ==
    /\ get(b, q) = "None"
    /\ Touching(q, p)
    /\ GridGet(b, p) = GoString(other(player), {p}, {q})
    /\ \A x \in DOMAIN b._grid : Touching(q, x) => get(b, x) = other(player)
    /\ \A G \in AdjacentStrings(b, q, other(player)) : G.liberties = {q} => G.stones = {p}

\* The recapture on p by the opponent of player in GameState n of ns.
KoVerdict(h, ns, n, player, p, verdict) ==
    /\ \A o \in does_move_violate_ko(h, ns, n, other(player), play(p)) :
          o.err = "none" /\ o.value = verdict
    /\ \A o \in is_valid_move(h, ns, n, play(p)) :
          o.err = "none" /\ o.value = ~verdict

\* C3: in the single-stone ko shape, once a player has captured the stone
\* on p by playing q, the opponent's immediate recapture on p violates ko
\* and is not valid; after a play elsewhere by the opponent and a reply
\* elsewhere that leave the ko open, the same recapture violates no ko and
\* is valid.
C3_KoRejectedThenAllowed ==
    \A q \in TipPoints : \A p \in TipPoints :
        KoShape(TipBoard, TipPlayer, q, p) =>
            \A a \in apply_move(heap, nodes, Tip, play(q)) :
                /\ a.err = "none"
                /\ KoVerdict(a.heap, Append(nodes, a.state), Tip + 1, TipPlayer, p, TRUE)
                /\ \A x \in TipPoints \ {p, q} : \A y \in TipPoints \ {p, q, x} :
                   \A a2 \in apply_move(a.heap, Append(nodes, a.state), Tip + 1, play(x)) :
                      a2.err = "none" =>
                   \A a3 \in apply_move(a2.heap, Append(Append(nodes, a.state), a2.state),
                                        Tip + 2, play(y)) :
                      ( /\ a3.err = "none"
                        /\ GridGet(a3.heap[a3.state.board], q) = GoString(TipPlayer, {q}, {p}) )
                      => KoVerdict(a3.heap,
                                   Append(Append(Append(nodes, a.state), a2.state), a3.state),
                                   Tip + 3, TipPlayer, p, FALSE)

(***************************************************************************)
(* The history kept by GameState, checked under Spec.                      *)
(***************************************************************************)
\* The pair that a child of nodes[n] adds to its previous_states.
PlayerAndHash(n) == <<nodes[n].next_player, zobrist_hash(heap[nodes[n].board])>>

\* The nodes reached from nodes[n] by following previous_state.
RECURSIVE Ancestors(_)
Ancestors(n) ==
    IF nodes[n].previous_state = 0 THEN {}
    ELSE {nodes[n].previous_state} \cup Ancestors(nodes[n].previous_state)

\* The board of nodes[n] is what last_move makes of the board of its parent.
BoardFollowsMove(n) ==
    LET S == nodes[n].previous_state
        m == nodes[n].last_move
    IN  IF m.is_play
        THEN /\ get(heap[nodes[S].board], m.point) = "None"
             /\ get(heap[nodes[n].board], m.point) = nodes[S].next_player
        ELSE /\ m \in {pass_turn, resign}
             /\ nodes[n].board = nodes[S].board

\* C11: the root made by new_game has an empty board, black to move, no
\* previous state, no last move and no previous_states; every other node
\* was made by apply_move(m) on its previous_state S, has the opponent of
\* S's player to move, m as last_move, and previous_states equal to S's
\* plus the pair (S.next_player, hash of S's board); so its previous_states
\* are exactly the (next_player, hash) pairs of its strict ancestors.
C11_HistoryBookkeeping ==
    /\ nodes[1] = [board |-> nodes[1].board, next_player |-> "black",
                   previous_state |-> 0, previous_states |-> {},
                   last_move |-> NoMove]
    /\ \A q \in TipPoints : get(heap[nodes[1].board], q) = "None"
    /\ zobrist_hash(heap[nodes[1].board]) = EMPTY_BOARD
    /\ \A n \in 2..Len(nodes) :
          LET S == nodes[n].previous_state
          IN  /\ S = n - 1
              /\ nodes[n].next_player = other(nodes[S].next_player)
              /\ BoardFollowsMove(n)
              /\ nodes[n].previous_states =
                    nodes[S].previous_states \cup {PlayerAndHash(S)}
              /\ nodes[n].previous_states = {PlayerAndHash(k) : k \in Ancestors(n)}

\* A history of a play, a pass and a play: three distinct pairs recorded.
C11_Witness ==
    /\ Len(nodes) = 4
    /\ nodes[2].last_move.is_play
    /\ nodes[3].last_move = pass_turn
    /\ nodes[4].last_move.is_play
    /\ Cardinality(nodes[4].previous_states) = 3

(***************************************************************************)
(* GoString.merged_with, checked under SpecMerge.                          *)
(***************************************************************************)
\* C12: for two strings A and B of the same colour, A.merged_with(B) returns
\* a string of that colour whose stones are the points that are a stone of
\* A or of B and whose liberties are the points that are a liberty of A or
\* of B and a stone of neither; for strings of different colours the call
\* raises AssertionError and returns nothing; A and B are as before.
C12_MergeCorrect ==
    [][ calls' = 1 =>
          LET A == objs.self
              B == objs.go_string
              R == objs'.result
          IN  /\ objs'.self = A /\ objs'.go_string = B
              /\ IF A.color = B.color
                 THEN /\ raised' = "none"
                      /\ R.color = A.color
                      /\ R.stones \cup R.liberties \subseteq MergeDomain
                      /\ \A p \in MergeDomain :
                            /\ p \in R.stones <=> (p \in A.stones \/ p \in B.stones)
                            /\ p \in R.liberties <=>
                                  /\ p \in A.liberties \/ p \in B.liberties
                                  /\ p \notin A.stones /\ p \notin B.stones
                 ELSE /\ raised' = "AssertionError"
                      /\ R = NoString ]_vars

\* A merge in which a liberty of each operand is a stone of the other.
C12_Witness ==
    /\ calls = 1
    /\ raised = "none"
    /\ objs.self.liberties \cap objs.go_string.stones # {}
    /\ objs.go_string.liberties \cap objs.self.stones # {}
    /\ objs.result.liberties # {}

(***************************************************************************)
(* Legal histories, checked under Spec.                                    *)
(***************************************************************************)
\* The colour on every point of the board of nodes[n].
Position(n) ==
    [q \in TipPoints |-> get(heap[nodes[n].board], q)]

\* C13: in a history whose moves were all accepted by is_valid_move, no
\* node made by a play has both the player to move and the whole-board
\* position of one of its ancestors.
C13_NoRepeatedSituation ==
    LegalHistory =>
        \A n \in 2..Len(nodes) :
            nodes[n].last_move.is_play =>
                \A k \in Ancestors(n) :
                    ~ ( /\ nodes[k].next_player = nodes[n].next_player
                        /\ Position(k) = Position(n) )

\* Three accepted plays in a row: the last node has two ancestors with the
\* other player to move and one with its own.
C13_Witness ==
    /\ LegalHistory
    /\ Len(nodes) = 4
    /\ \A n \in 2..4 : nodes[n].last_move.is_play
    /\ nodes[2].next_player = nodes[4].next_player

(***************************************************************************)
(* The strings stored on a Board, checked under SpecBoard.                 *)
(***************************************************************************)
\* The colour on every point of board.
Colours == [q \in OnBoard |-> get(board, q)]

\* The points of board that hold a stone.
Occupied == {p \in OnBoard : GridGet(board, p) # NoString}

\* C14: after any sequence of place_stone calls on empty points of the
\* grid, captures included, every empty point of the grid next to a stone
\* is a liberty of the string stored for that stone; in particular the
\* points a capture empties are liberties of the strings next to them.
C14_LibertiesRestored ==
    \A p \in Occupied : \A q \in OnBoard :
        (Touching(p, q) /\ Colours[q] = "None")
            => q \in GridGet(board, p).liberties

\* C15: the liberties of every stored string are none of its stones, and
\* each is a point of the grid that is empty and next to one of its stones;
\* the point just played is a liberty of no neighbouring string.
C15_LibertiesSound ==
    \A p \in Occupied :
        LET g == GridGet(board, p)
        IN  /\ g.liberties \cap g.stones = {}
            /\ \A l \in g.liberties :
                  /\ is_on_grid(board, l)
                  /\ Colours[l] = "None"
                  /\ \E s \in g.stones : Touching(s, l)

\* C16: two different stored strings share no point, two stones of one
\* colour next to each other are stored with the same string, and the
\* stones of every stored string are a maximal connected set of stones of
\* one colour on the board.
C16_StringsMaximal ==
    /\ \A p \in Occupied : \A q \in Occupied :
          GridGet(board, p) # GridGet(board, q)
              => GridGet(board, p).stones \cap GridGet(board, q).stones = {}
    /\ \A p \in Occupied : \A q \in Occupied :
          (Touching(p, q) /\ Colours[p] = Colours[q])
              => GridGet(board, p) = GridGet(board, q)
    /\ \A p \in Occupied : GridGet(board, p).stones = Chain(Colours, {p})

\* C17: the string stored for a point that holds a stone contains that
\* point, and every point among its stones is stored with that same
\* string; a captured string is stored for no point.
C17_GridMatchesStrings ==
    \A p \in Occupied :
        /\ p \in GridGet(board, p).stones
        /\ \A s \in GridGet(board, p).stones : GridGet(board, s) = GridGet(board, p)

\* C18: in a history whose moves were all accepted by is_valid_move, every
\* string on the board of every game state has at least one liberty, both
\* as stored and as counted from the colours on the board.
C18_NoDeadStrings ==
    LegalHistory =>
        \A n \in 1..Len(nodes) : \A p \in TipPoints :
            LET g == GridGet(heap[nodes[n].board], p)
            IN  g # NoString =>
                  /\ num_liberties(g) >= 1
                  /\ FreeAround(Position(n), Chain(Position(n), {p})) # {}

\* Three accepted plays that leave a string with its last liberty.
C18_Witness ==
    /\ LegalHistory
    /\ Len(nodes) = 4
    /\ \A n \in 2..4 : nodes[n].last_move.is_play
    /\ \E p \in TipPoints :
          /\ GridGet(TipBoard, p) # NoString
          /\ num_liberties(GridGet(TipBoard, p)) = 1
          /\ Cardinality(FreeAround(Position(Tip), Chain(Position(Tip), {p}))) = 1

\* C19: place_stone called with a point off the grid or a point that holds
\* a stone raises AssertionError and leaves the grid and the hash as they
\* were; apply_move of a play on such a point, on a GameState that has this
\* board, raises too, makes no GameState and leaves the board as it was.
C19_PreconditionFailure ==
    \A player \in Player : \A point \in OnBoard \cup BeyondEdges(board) :
        (~is_on_grid(board, point) \/ GridGet(board, point) # NoString) =>
            /\ \A r \in place_stone(board, player, point) :
                  r.err = "AssertionError" /\ r.board = board
            /\ LET h == << board >>
                   ns == << GameState_init(h, <<>>, 1, player, 0, NoMove) >>
               IN  \A o \in apply_move(h, ns, 1, play(point)) :
                      /\ o.err = "AssertionError"
                      /\ o.state = NoState
                      /\ o.heap = h

\* A rejected call made on a board that holds stones of both colours.
C19_Witness ==
    /\ raised = "AssertionError"
    /\ \E p \in Occupied : \E q \in Occupied : Colours[p] # Colours[q]

\* The one-to-one maps of 1..n onto itself.
Orders(n) == {f \in [1..n -> 1..n] : \A i \in 1..n : \A j \in 1..n : f[i] = f[j] => i = j}

\* The strings of list, taken in the order f.
InOrder(list, f) == [i \in 1..Len(list) |-> list[f[i]]]

\* C20: when place_stone puts a stone next to several strings of its own
\* colour, folding them into the new one-stone string gives the same string
\* in every order: its stones are the new stone and the stones of all those
\* strings, its liberties are their liberties and the empty neighbours of
\* the new stone, less those stones; place_stone stores that string.
C20_MergeOrderIndependent ==
    \A player \in Player : \A point \in OnBoard \ Occupied :
        LET adjacent_same_color == Adjacent(board, point, player, 1, <<>>)
            friends == {adjacent_same_color[i] : i \in 1..Len(adjacent_same_color)}
            liberties == {n \in OnBoard \ Occupied : Touching(point, n)}
            stones == {point} \cup UNION {g.stones : g \in friends}
            expected == GoString(player, stones,
                           (liberties \cup UNION {g.liberties : g \in friends}) \ stones)
        IN  Len(adjacent_same_color) >= 2 =>
              /\ \A f \in Orders(Len(adjacent_same_color)) :
                    MergeAll(GoString(player, {point}, liberties),
                             InOrder(adjacent_same_color, f), 1) = expected
              /\ GridGet(PlaceNewString(board, player, point), point) = expected

\* An empty point with two strings of one colour next to it, which a stone
\* of that colour joins into one string of three stones or more.
C20_Witness ==
    \E player \in Player : \E point \in OnBoard \ Occupied :
        /\ Len(Adjacent(board, point, player, 1, <<>>)) >= 2
        /\ Cardinality(GridGet(PlaceNewString(board, player, point), point).stones) >= 3

====
